---- MODULE Spec2Model ----
(***************************************************************************)
(* State-machine model of libuthread/fs.c (ECS150FS): the globals          *)
(* mySuperblock, myRootDir, myFAT and fd_table, the virtual disk they are   *)
(* loaded from, and one action per fs_* entry point.                        *)
(*                                                                          *)
(* Sizes are scaled down: the header constants FS_FILE_MAX_COUNT (128),     *)
(* FS_OPEN_MAX_COUNT (32), FS_FILENAME_LEN (16) and BLOCK_SIZE (4096) are    *)
(* replaced by small values that keep their order relations                  *)
(* (FS_OPEN_MAX_COUNT < FS_FILE_MAX_COUNT, two bytes per FAT entry).         *)
(*                                                                          *)
(* C arrays are 0-based; they are modelled as functions over 0..n-1.        *)
(* Strings are sequences of non-zero characters (the NUL is implicit).      *)
(***************************************************************************)
EXTENDS Integers, Sequences, FiniteSets, TLC

\* ------------------------------------------------------------------------
\* Scaled sizes
\* ------------------------------------------------------------------------
FS_FILE_MAX_COUNT == 3
FS_OPEN_MAX_COUNT == 2
FS_FILENAME_LEN == 2
\* FAT entries (16-bit words) per disk block
EntriesPerBlock == 2
BLOCK_SIZE == 2 * EntriesPerBlock
\* a file's counter is followed from 0 up to MaxOpens, and one step below
\* 0: fs_open is cut off once it has reached MaxOpens, fs_close once it
\* has wrapped around
MaxOpens == 1

\* (int16_t)-1, stored by fs_create in dataBlockInd
FAT_EOC == -1
\* 0xFFFF, the end-of-chain word of the on-disk FAT
FAT_EOC_WORD == 65535
\* uint8_t num_fd_pointers
UINT8_MOD == 256

\* a 16-bit field read as unsigned
Word16(v) == v % (FAT_EOC_WORD + 1)

Slots == 0 .. (FS_FILE_MAX_COUNT - 1)
Fds == 0 .. (FS_OPEN_MAX_COUNT - 1)

\* characters of file names ('a' = 1, 'b' = 2); 0 is NUL
Chars == {1, 2}
\* the strings callers pass as file names
Names == {<<1>>, <<2>>}
\* a name with no room for its NUL in the filename array
LongName == [j \in 1 .. FS_FILENAME_LEN |-> 1]
\* ... and with the empty string and LongName
AllNames == Names \cup {<<>>, LongName}

\* counts passed to fs_read: none, less than a block, a block
Counts == {0, 1, BLOCK_SIZE}
\* counts passed to fs_write: more than a block
WriteCounts == {BLOCK_SIZE + 1}
\* offsets passed to fs_lseek: the start, the size of the smaller file of
\* the images, and one past the size of the larger
SeekOffsets == {0, BLOCK_SIZE, BLOCK_SIZE + 2}

Min(a, b) == IF a < b THEN a ELSE b
Max(a, b) == IF a > b THEN a ELSE b

\* ------------------------------------------------------------------------
\* Records
\* ------------------------------------------------------------------------
\* struct rootdirectory_t: filename is the 16-byte (here FS_FILENAME_LEN)
\* array, index j of C is index j+1 here.  unused[9] is never accessed.
DirEntry(fn, sz, blk, n) ==
  [filename |-> fn, fileSize |-> sz, dataBlockInd |-> blk, num_fd_pointers |-> n]

ZeroName == [j \in 1 .. FS_FILENAME_LEN |-> 0]
EmptyEntry == DirEntry(ZeroName, 0, 0, 0)

\* a name as it sits in a zero-padded filename array
Padded(s) == [j \in 1 .. FS_FILENAME_LEN |-> IF j <= Len(s) THEN s[j] ELSE 0]

\* struct file_descriptor_t; dir_ptr is only ever assigned NULL and never
\* read, so it is left out.
FdEntry(u, fi, off, nm) ==
  [is_used |-> u, file_index |-> fi, offset |-> off, file_name |-> nm]

\* zero-initialised global
ZeroFd == FdEntry(FALSE, 0, 0, <<>>)

\* struct superblock_t
Superblock(sig, nb, rd, di, nd, nf) ==
  [signature |-> sig, numBlocks |-> nb, rootDirInd |-> rd, dataInd |-> di,
   numDataBlocks |-> nd, numFAT |-> nf]

\* contents of freshly malloc'ed superblock memory: never read before
\* block_read(0, ...) fills it
NoSuperblock == Superblock(<<>>, 0, 0, 0, 0, 0)

ZeroBlock == [j \in 1 .. BLOCK_SIZE |-> 0]

\* ------------------------------------------------------------------------
\* The virtual disk (block device)
\* ------------------------------------------------------------------------
\* number of FAT blocks a formatter lays out for nd data blocks
CeilFatBlocks(nd) == (nd * 2 + BLOCK_SIZE - 1) \div BLOCK_SIZE

\* A disk image with nd data blocks laid out as the superblock comment in
\* fs.c describes: block 0 superblock, then the FAT, the root directory,
\* the data blocks.  fat, root and data are its typed contents; extra is
\* added to the block count the superblock announces.
MkDisk(sig, nd, extra, fat, root, data) ==
  [count |-> CeilFatBlocks(nd) + 2 + nd,
   super |-> Superblock(sig, CeilFatBlocks(nd) + 2 + nd + extra,
                        CeilFatBlocks(nd) + 1, CeilFatBlocks(nd) + 2, nd,
                        CeilFatBlocks(nd)),
   fat |-> fat, root |-> root, data |-> data]

\* "ECS150FS", and a signature fs_mount must refuse
Signature == <<69, 67, 83, 49, 53, 48, 70, 83>>
BadSignature == <<69, 67, 83, 49, 53, 48, 70, 88>>

\* data blocks of the images: a whole number of FAT blocks, and more than
\* BLOCK_SIZE + 1 of them
NumData == 3 * EntriesPerBlock
DataIdx == 0 .. (NumData - 1)

\* byte j (1-based) of a written data block k
Fill(k) == [j \in 1 .. BLOCK_SIZE |-> 10 * k + j]

EmptyFat == [k \in DataIdx |-> IF k = 0 THEN FAT_EOC_WORD ELSE 0]
EmptyRoot == [i \in Slots |-> EmptyEntry]
EmptyData == [k \in DataIdx |-> ZeroBlock]

\* a freshly formatted disk
FreshDisk == MkDisk(Signature, NumData, 0, EmptyFat, EmptyRoot, EmptyData)

\* a disk a complete implementation has written two files to:
\*   slot 0: "a", one full block, chain 1
\*   slot 1: "b", one block and one byte, chain BLOCK_SIZE -> BLOCK_SIZE + 1
FilesFat ==
  [k \in DataIdx |->
     CASE k = 0 -> FAT_EOC_WORD
       [] k = 1 -> FAT_EOC_WORD
       [] k = BLOCK_SIZE -> BLOCK_SIZE + 1
       [] k = BLOCK_SIZE + 1 -> FAT_EOC_WORD
       [] OTHER -> 0]
FilesRoot ==
  [i \in Slots |->
     CASE i = 0 -> DirEntry(Padded(<<1>>), BLOCK_SIZE, 1, 0)
       [] i = 1 -> DirEntry(Padded(<<2>>), BLOCK_SIZE + 1, BLOCK_SIZE, 0)
       [] OTHER -> EmptyEntry]
FilesData ==
  [k \in DataIdx |->
     IF k \in {1, BLOCK_SIZE, BLOCK_SIZE + 1} THEN Fill(k) ELSE ZeroBlock]
FilesDisk == MkDisk(Signature, NumData, 0, FilesFat, FilesRoot, FilesData)

\* images fs_mount must refuse
BadSigDisk == MkDisk(BadSignature, NumData, 0, EmptyFat, EmptyRoot, EmptyData)
BadCountDisk == MkDisk(Signature, NumData, 1, EmptyFat, EmptyRoot, EmptyData)

Images == {FreshDisk, FilesDisk, BadSigDisk, BadCountDisk}

\* a formatted disk whose superblock announces one FAT block too many
BadFatCountDisk == [FreshDisk EXCEPT !.super.numFAT = @ + 1]

\* a formatted disk whose FAT does not fill its last block
OddData == NumData - 1
OddDisk ==
  MkDisk(Signature, OddData, 0, [k \in 0 .. (OddData - 1) |-> EmptyFat[k]],
         EmptyRoot, [k \in 0 .. (OddData - 1) |-> ZeroBlock])

\* the images fs_mount is tried on
MountImages == Images \cup {BadFatCountDisk, OddDisk}

\* disk names passed to fs_mount: the image file, or a file that is missing
DiskNames == {"disk.fs", "missing.fs"}

\* block_read(i, buf) and block_write(i, buf) succeed for
\* 0 <= i < block_disk_count()
BlockOk(d, i) == i >= 0 /\ i < d.count

\* FAT block i (block number, 1-based) of the disk: the entries it holds
FatBlockOf(d, i) ==
  [e \in 0 .. (EntriesPerBlock - 1) |->
     IF (i - 1) * EntriesPerBlock + e \in DOMAIN d.fat
       THEN d.fat[(i - 1) * EntriesPerBlock + e] ELSE 0]

\* physical block b lies in the data region of the image
IsDataBlock(d, b) == b >= d.super.dataInd /\ b < d.count
DataIndexOf(d, b) == b - d.super.dataInd

\* n little-endian bytes of v (two's complement for negative v: \div
\* rounds down)
LE(v, n) == [j \in 1 .. n |-> (v \div (256 ^ (j - 1))) % 256]

\* the first BLOCK_SIZE bytes of s, zero padded
AsBlock(s) == [j \in 1 .. BLOCK_SIZE |-> IF j <= Len(s) THEN s[j] ELSE 0]

SuperBytes(sb) ==
  sb.signature \o LE(sb.numBlocks, 2) \o LE(sb.rootDirInd, 2) \o LE(sb.dataInd, 2)
    \o LE(sb.numDataBlocks, 2) \o LE(sb.numFAT, 1)

EntryBytes(e) ==
  e.filename \o LE(e.fileSize, 4) \o LE(e.dataBlockInd, 2) \o LE(e.num_fd_pointers, 1)

RECURSIVE RootBytes(_, _)
RootBytes(root, i) ==
  IF i >= FS_FILE_MAX_COUNT THEN <<>>
  ELSE EntryBytes(root[i]) \o RootBytes(root, i + 1)

RECURSIVE FatBytes(_, _)
FatBytes(blk, e) ==
  IF e >= EntriesPerBlock THEN <<>> ELSE LE(blk[e], 2) \o FatBytes(blk, e + 1)

\* the bytes of physical block b of the image (b inside the disk)
PhysBlock(d, b) ==
  CASE b = 0 -> AsBlock(SuperBytes(d.super))
    [] b >= 1 /\ b < d.super.rootDirInd -> AsBlock(FatBytes(FatBlockOf(d, b), 0))
    [] b = d.super.rootDirInd -> AsBlock(RootBytes(d.root, 0))
    [] OTHER -> d.data[DataIndexOf(d, b)]

\* block_read(b, buf): what buf holds afterwards (unchanged on failure)
block_read(d, b, buf) == IF BlockOk(d, b) THEN PhysBlock(d, b) ELSE buf

\* block_write(b, buf) to a block of the data region; a failed write
\* (b outside the disk) changes nothing.  fs.c writes no other region.
block_write(d, b, buf) ==
  IF IsDataBlock(d, b) THEN [d EXCEPT !.data[DataIndexOf(d, b)] = buf] ELSE d

\* ------------------------------------------------------------------------
\* Helpers of fs.c
\* ------------------------------------------------------------------------
SetMin(S) == CHOOSE x \in S : \A y \in S : x <= y

\* the C string held in a char array: the bytes before the first NUL
CStr(fn) ==
  LET z == {j \in 1 .. Len(fn) : fn[j] = 0}
  IN IF z = {} THEN fn ELSE SubSeq(fn, 1, SetMin(z) - 1)

\* strcpy(dst, s): s and its NUL are written, later bytes of dst stay.  For
\* strlen(s) = FS_FILENAME_LEN the NUL lands on the byte behind the array
\* (the low byte of fileSize, which fs_create then sets to 0; the low byte of
\* dir_ptr, which is NULL), so that the array holds s with no NUL and the
\* string read from it ends where the size-0 field begins.
strcpy(dst, s) ==
  [j \in 1 .. Len(dst) |->
     IF j <= Len(s) THEN s[j] ELSE IF j = Len(s) + 1 THEN 0 ELSE dst[j]]

\* locate_file: "filename != 0x00" compares the array's address and is
\* always true, so an empty slot matches the empty string
locate_file(rd, file_name) ==
  LET m == {i \in Slots : CStr(rd[i].filename) = file_name}
  IN IF m = {} THEN -1 ELSE SetMin(m)

locate_avail_fd(tbl) ==
  LET m == {i \in Fds : ~tbl[i].is_used}
  IN IF m = {} THEN -1 ELSE SetMin(m)

\* error_check: same_char is summed over all slots and compared once
\* after the loop
error_check(rd, filename) ==
  LET size == Len(filename)
      same_char ==
        Cardinality({p \in Slots \X (1 .. Min(size, FS_FILENAME_LEN)) :
                       rd[p[1]].filename[p[2]] = filename[p[2]]})
      files_in_rootdir == Cardinality({i \in Slots : rd[i].filename[1] # 0})
  IN IF size > FS_FILENAME_LEN THEN -1
     ELSE IF same_char = size THEN -1
     ELSE IF files_in_rootdir = FS_FILE_MAX_COUNT THEN -1
     ELSE 0

\* FAT_blocks as fs_mount and fs_info compute it
FAT_blocks(sb) ==
  IF (sb.numDataBlocks * 2) \div BLOCK_SIZE = 0 THEN 1
  ELSE (sb.numDataBlocks * 2) \div BLOCK_SIZE

\* ------------------------------------------------------------------------
\* State
\* ------------------------------------------------------------------------
VARIABLES
  disk,          \* the image file behind "disk.fs"
  diskOpen,      \* the block layer has a disk open
  mySuperblock,  \* [ptr: "NULL" | "live" | "freed", val: struct superblock_t]
  myRootDir,     \* the memory myRootDir points to, slot -> struct rootdirectory_t
  myFAT,         \* [size: entries malloc'ed, loaded: entry index -> word read]
  fd_table,      \* fd -> struct file_descriptor_t
  mounted,       \* the last fs_mount returned 0 and fs_umount has not since
  last           \* the last call: arguments, return value, caller's buffer,
                 \* whether a file system was mounted when it was made (m)
                 \* and the descriptors and counters it found (pre)

vars == <<disk, diskOpen, mySuperblock, myRootDir, myFAT, fd_table, mounted, last>>

\* which descriptors are in use, and every slot's counter
OpenState(tbl, rd) ==
  [used |-> {f \in Fds : tbl[f].is_used},
   counts |-> [i \in Slots |-> rd[i].num_fd_pointers]]

\* the record of a call that returned; m and pre are taken when the call
\* is made
Returned(op, name, fd, n, ret, buf) ==
  [op |-> op, name |-> name, fd |-> fd, n |-> n, ret |-> ret, buf |-> buf,
   status |-> "returned", m |-> mounted, pre |-> OpenState(fd_table, myRootDir)]

\* the record of a call the process died in (abort or fault)
Crashed(op, name, fd, n) ==
  [op |-> op, name |-> name, fd |-> fd, n |-> n, ret |-> 0, buf |-> <<>>,
   status |-> "crashed", m |-> mounted, pre |-> OpenState(fd_table, myRootDir)]

Running == last.status = "returned"

NoFAT == [size |-> 0, loaded |-> [k \in {} |-> 0]]

\* the state after program start, with one of images behind "disk.fs"
InitOn(images) ==
  /\ disk \in images
  /\ diskOpen = FALSE
  /\ mySuperblock = [ptr |-> "NULL", val |-> NoSuperblock]
  /\ myRootDir = EmptyRoot
  /\ myFAT = NoFAT
  /\ fd_table = [f \in Fds |-> ZeroFd]
  /\ mounted = FALSE
  /\ last = [op |-> "start", name |-> <<>>, fd |-> 0, n |-> 0, ret |-> 0,
             buf |-> <<>>, status |-> "returned", m |-> FALSE,
             pre |-> OpenState([f \in Fds |-> ZeroFd], EmptyRoot)]

Init == InitOn(Images)

\* ------------------------------------------------------------------------
\* fs_mount
\* ------------------------------------------------------------------------
\* The FAT as fs_mount leaves it: FAT_blocks entries are malloc'ed and never
\* written; block i of the disk is read to myFAT + i * BLOCK_SIZE, that is
\* to the entries i * BLOCK_SIZE .. i * BLOCK_SIZE + EntriesPerBlock - 1,
\* past the end of the allocation.
LoadedFAT(d, nblocks) ==
  [size |-> nblocks,
   loaded |->
     [k \in {i * BLOCK_SIZE + e : i \in 1 .. nblocks, e \in 0 .. (EntriesPerBlock - 1)} |->
        FatBlockOf(d, k \div BLOCK_SIZE)[k % BLOCK_SIZE]]]

\* The directory block_read(b, myRootDir) leaves in memory.  Where fs_mount
\* does not look at the root directory block (OddDisk), it reads the last
\* FAT block, which is all zero on that image: every slot reads as empty.
RootDirAt(d, b) == IF b = d.super.rootDirInd THEN d.root ELSE EmptyRoot

\* the value fs_mount returns for an image it could open
MountResult(d) ==
  IF d.super.signature # Signature THEN -1
  ELSE IF d.super.numBlocks # d.count THEN -1
  ELSE IF \E i \in 1 .. (FAT_blocks(d.super) + 1) : ~BlockOk(d, i) THEN -1
  ELSE 0

\* block_disk_open fails: only the malloc of the superblock has happened
MountNoDisk(diskname) ==
  /\ Running
  /\ ~diskOpen
  /\ diskname # "disk.fs"
  /\ mySuperblock' = [ptr |-> "live", val |-> NoSuperblock]
  /\ last' = Returned("mount", <<>>, 0, 0, -1, <<>>)
  /\ UNCHANGED <<disk, diskOpen, myRootDir, myFAT, fd_table, mounted>>

\* the superblock is read and refused; the disk stays open
MountRefused(diskname) ==
  /\ Running
  /\ ~diskOpen
  /\ diskname = "disk.fs"
  /\ MountResult(disk) = -1
  /\ diskOpen' = TRUE
  /\ mySuperblock' = [ptr |-> "live", val |-> disk.super]
  /\ last' = Returned("mount", <<>>, 0, 0, -1, <<>>)
  /\ UNCHANGED <<disk, myRootDir, myFAT, fd_table, mounted>>

\* the FAT blocks are read past the end of the myFAT allocation, and the
\* process survives it
MountLoaded(diskname) ==
  /\ Running
  /\ ~diskOpen
  /\ diskname = "disk.fs"
  /\ MountResult(disk) = 0
  /\ diskOpen' = TRUE
  /\ mySuperblock' = [ptr |-> "live", val |-> disk.super]
  /\ myFAT' = LoadedFAT(disk, FAT_blocks(disk.super))
  /\ myRootDir' = RootDirAt(disk, FAT_blocks(disk.super) + 1)
  /\ fd_table' = [f \in Fds |-> [fd_table[f] EXCEPT !.is_used = FALSE]]
  /\ mounted' = TRUE
  /\ last' = Returned("mount", <<>>, 0, 0, 0, <<>>)
  /\ UNCHANGED disk

\* the same reads hit memory the process must not write
MountCrash(diskname) ==
  /\ Running
  /\ ~diskOpen
  /\ diskname = "disk.fs"
  /\ MountResult(disk) = 0
  /\ diskOpen' = TRUE
  /\ mySuperblock' = [ptr |-> "live", val |-> disk.super]
  /\ last' = Crashed("mount", <<>>, 0, 0)
  /\ UNCHANGED <<disk, myRootDir, myFAT, fd_table, mounted>>

fs_mount(diskname) ==
  \/ MountNoDisk(diskname)
  \/ MountRefused(diskname)
  \/ MountLoaded(diskname)
  \/ MountCrash(diskname)

\* ------------------------------------------------------------------------
\* fs_umount
\* ------------------------------------------------------------------------
UmountNull ==
  /\ Running
  /\ mySuperblock.ptr = "NULL"
  /\ last' = Returned("umount", <<>>, 0, 0, -1, <<>>)
  /\ UNCHANGED <<disk, diskOpen, mySuperblock, myRootDir, myFAT, fd_table, mounted>>

\* free(mySuperblock->signature) frees the block free(mySuperblock) frees
\* again (and so for myRootDir); the pointers are never reset.  Here the
\* allocator lets it pass.
UmountDone ==
  /\ Running
  /\ mySuperblock.ptr # "NULL"
  /\ mySuperblock' = [mySuperblock EXCEPT !.ptr = "freed"]
  /\ fd_table' = [f \in Fds |-> FdEntry(FALSE, -1, 0, <<>>)]
  /\ diskOpen' = FALSE
  /\ mounted' = FALSE
  /\ last' = Returned("umount", <<>>, 0, 0, 0, <<>>)
  /\ UNCHANGED <<disk, myRootDir, myFAT>>

\* here the allocator detects the double free and aborts
UmountCrash ==
  /\ Running
  /\ mySuperblock.ptr # "NULL"
  /\ last' = Crashed("umount", <<>>, 0, 0)
  /\ UNCHANGED <<disk, diskOpen, mySuperblock, myRootDir, myFAT, fd_table, mounted>>

fs_umount == UmountNull \/ UmountDone \/ UmountCrash

\* ------------------------------------------------------------------------
\* fs_create
\* ------------------------------------------------------------------------
\* The value of error_check(filename) is discarded.  The store of
\* myFAT[0].words into dataBlockInd is overwritten four lines later.
\* (a scan that starts at slot 1)
EmptySlotsAfterFirst(rd) == {i \in Slots \ {0} : rd[i].filename[1] = 0}

EmptySlots(rd) == {i \in Slots : rd[i].filename[1] = 0}

CreateFull(filename) ==
  /\ Running /\ mounted
  /\ EmptySlots(myRootDir) = {}
  /\ last' = Returned("create", filename, 0, 0, -1, <<>>)
  /\ UNCHANGED <<disk, diskOpen, mySuperblock, myRootDir, myFAT, fd_table, mounted>>

CreateDone(filename) ==
  /\ Running /\ mounted
  /\ EmptySlots(myRootDir) # {}
  /\ LET i == SetMin(EmptySlots(myRootDir))
     IN myRootDir' =
          [myRootDir EXCEPT
             ![i] = DirEntry(strcpy(myRootDir[i].filename, filename), 0, FAT_EOC, 0)]
  /\ last' = Returned("create", filename, 0, 0, 0, <<>>)
  /\ UNCHANGED <<disk, diskOpen, mySuperblock, myFAT, fd_table, mounted>>

fs_create(filename) == CreateFull(filename) \/ CreateDone(filename)

\* ------------------------------------------------------------------------
\* fs_delete
\* ------------------------------------------------------------------------
\* buf[idx] = '\0' for an index inside the buffer (every first block of
\* this model's images is below 2 * BLOCK_SIZE)
Zap(buf, idx) ==
  IF idx >= 0 /\ idx < BLOCK_SIZE THEN [buf EXCEPT ![idx + 1] = 0] ELSE buf

\* the two blocks at mySuperblock->dataInd after the loop and the two
\* block_write calls
DeleteBlocks(d, sb, e) ==
  LET frst_dta_blk_i == e.dataBlockInd
      num_blocks == e.fileSize \div BLOCK_SIZE
      buf1 == block_read(d, sb.dataInd, ZeroBlock)
      buf2 == block_read(d, sb.dataInd + 1, ZeroBlock)
      new1 == IF num_blocks > 0 /\ frst_dta_blk_i < BLOCK_SIZE
                THEN Zap(buf1, frst_dta_blk_i) ELSE buf1
      new2 == IF num_blocks > 0 /\ ~(frst_dta_blk_i < BLOCK_SIZE)
                THEN Zap(buf2, frst_dta_blk_i - BLOCK_SIZE) ELSE buf2
  IN block_write(block_write(d, sb.dataInd, new1), sb.dataInd + 1, new2)

DeleteMissing(filename) ==
  /\ Running /\ mounted
  /\ locate_file(myRootDir, filename) = -1
  /\ last' = Returned("delete", filename, 0, 0, -1, <<>>)
  /\ UNCHANGED <<disk, diskOpen, mySuperblock, myRootDir, myFAT, fd_table, mounted>>

DeleteOpen(filename) ==
  /\ Running /\ mounted
  /\ locate_file(myRootDir, filename) # -1
  /\ myRootDir[locate_file(myRootDir, filename)].num_fd_pointers > 0
  /\ last' = Returned("delete", filename, 0, 0, -1, <<>>)
  /\ UNCHANGED <<disk, diskOpen, mySuperblock, myRootDir, myFAT, fd_table, mounted>>

DeleteDone(filename) ==
  /\ Running /\ mounted
  /\ locate_file(myRootDir, filename) # -1
  /\ LET file_index == locate_file(myRootDir, filename)
         the_dir == myRootDir[file_index]
     IN /\ ~(the_dir.num_fd_pointers > 0)
        /\ disk' = DeleteBlocks(disk, mySuperblock.val, the_dir)
        /\ myRootDir' =
             [myRootDir EXCEPT
                ![file_index] = DirEntry(strcpy(the_dir.filename, <<>>), 0, -1, 0)]
  /\ last' = Returned("delete", filename, 0, 0, 0, <<>>)
  /\ UNCHANGED <<diskOpen, mySuperblock, myFAT, fd_table, mounted>>

fs_delete(filename) ==
  DeleteMissing(filename) \/ DeleteOpen(filename) \/ DeleteDone(filename)

\* ------------------------------------------------------------------------
\* fs_open
\* ------------------------------------------------------------------------
OpenMissing(filename) ==
  /\ Running /\ mounted
  /\ locate_file(myRootDir, filename) = -1
  /\ last' = Returned("open", filename, 0, 0, -1, <<>>)
  /\ UNCHANGED <<disk, diskOpen, mySuperblock, myRootDir, myFAT, fd_table, mounted>>

OpenNoFd(filename) ==
  /\ Running /\ mounted
  /\ locate_file(myRootDir, filename) # -1
  /\ locate_avail_fd(fd_table) = -1
  /\ last' = Returned("open", filename, 0, 0, -1, <<>>)
  /\ UNCHANGED <<disk, diskOpen, mySuperblock, myRootDir, myFAT, fd_table, mounted>>

\* the counter after num_fd_pointers++
Incremented(e) == [e EXCEPT !.num_fd_pointers = (@ + 1) % UINT8_MOD]

\* the table after the four stores to fd_table[file_index]
OpenedTable(tbl, file_index, fd, filename) ==
  [tbl EXCEPT ![file_index] = FdEntry(TRUE, file_index, 0, filename)]

\* the stores go to fd_table[file_index], a slot of the table; the file's
\* counter is followed up to cap
OpenDoneUpTo(filename, cap) ==
  /\ Running /\ mounted
  /\ locate_file(myRootDir, filename) \in Fds
  /\ locate_avail_fd(fd_table) # -1
  /\ LET file_index == locate_file(myRootDir, filename)
         fd == locate_avail_fd(fd_table)
     IN /\ myRootDir[file_index].num_fd_pointers < cap
        /\ fd_table' = OpenedTable(fd_table, file_index, fd, filename)
        /\ myRootDir' = [myRootDir EXCEPT ![file_index] = Incremented(@)]
        /\ last' = Returned("open", filename, 0, 0, fd, <<>>)
  /\ UNCHANGED <<disk, diskOpen, mySuperblock, myFAT, mounted>>

\* file_index >= FS_OPEN_MAX_COUNT: the stores land behind the table, in
\* memory this model does not hold
OpenOutsideUpTo(filename, cap) ==
  /\ Running /\ mounted
  /\ locate_file(myRootDir, filename) >= FS_OPEN_MAX_COUNT
  /\ locate_avail_fd(fd_table) # -1
  /\ LET file_index == locate_file(myRootDir, filename)
         fd == locate_avail_fd(fd_table)
     IN /\ myRootDir[file_index].num_fd_pointers < cap
        /\ myRootDir' = [myRootDir EXCEPT ![file_index] = Incremented(@)]
        /\ last' = Returned("open", filename, 0, 0, fd, <<>>)
  /\ UNCHANGED <<disk, diskOpen, mySuperblock, myFAT, fd_table, mounted>>

\* ... or in memory the process must not write
OpenCrashUpTo(filename, cap) ==
  /\ Running /\ mounted
  /\ locate_file(myRootDir, filename) >= FS_OPEN_MAX_COUNT
  /\ locate_avail_fd(fd_table) # -1
  /\ myRootDir[locate_file(myRootDir, filename)].num_fd_pointers < cap
  /\ last' = Crashed("open", filename, 0, 0)
  /\ UNCHANGED <<disk, diskOpen, mySuperblock, myRootDir, myFAT, fd_table, mounted>>

OpenDone(filename) == OpenDoneUpTo(filename, MaxOpens)
OpenOutside(filename) == OpenOutsideUpTo(filename, MaxOpens)
OpenCrash(filename) == OpenCrashUpTo(filename, MaxOpens)

fs_open(filename) ==
  \/ OpenMissing(filename)
  \/ OpenNoFd(filename)
  \/ OpenDone(filename)
  \/ OpenOutside(filename)
  \/ OpenCrash(filename)

\* one more open than the table has descriptors
SameFileOpens == FS_OPEN_MAX_COUNT + 1

\* fs_open with the counter of one file followed through SameFileOpens
\* opens
fs_open_again(filename) ==
  \/ OpenMissing(filename)
  \/ OpenNoFd(filename)
  \/ OpenDoneUpTo(filename, SameFileOpens)
  \/ OpenOutsideUpTo(filename, SameFileOpens)
  \/ OpenCrashUpTo(filename, SameFileOpens)

\* ------------------------------------------------------------------------
\* fs_close, fs_stat
\* ------------------------------------------------------------------------
\* the check fs_close and fs_stat start with
BadFd(tbl, fd) ==
  IF fd >= FS_OPEN_MAX_COUNT THEN TRUE
  ELSE IF fd < 0 THEN TRUE
  ELSE tbl[fd].is_used = FALSE

\* descriptors callers pass: every slot, one below and one above
FdArgs == -1 .. FS_OPEN_MAX_COUNT

\* both early returns: the descriptor is refused, or the name it carries
\* is no longer in the directory
CloseFail(fd) ==
  /\ Running /\ mounted
  /\ (IF BadFd(fd_table, fd) THEN TRUE
      ELSE locate_file(myRootDir, fd_table[fd].file_name) = -1)
  /\ last' = Returned("close", <<>>, fd, 0, -1, <<>>)
  /\ UNCHANGED <<disk, diskOpen, mySuperblock, myRootDir, myFAT, fd_table, mounted>>

\* the counter after num_fd_pointers--
Decremented(e) == [e EXCEPT !.num_fd_pointers = (@ - 1) % UINT8_MOD]

CloseDone(fd) ==
  /\ Running /\ mounted
  /\ ~BadFd(fd_table, fd)
  /\ locate_file(myRootDir, fd_table[fd].file_name) # -1
  /\ LET file_index == locate_file(myRootDir, fd_table[fd].file_name)
     IN /\ myRootDir[file_index].num_fd_pointers <= MaxOpens
        /\ myRootDir' = [myRootDir EXCEPT ![file_index] = Decremented(@)]
  /\ fd_table' = [fd_table EXCEPT ![fd].is_used = FALSE]
  /\ last' = Returned("close", <<>>, fd, 0, 0, <<>>)
  /\ UNCHANGED <<disk, diskOpen, mySuperblock, myFAT, mounted>>

fs_close(fd) == CloseFail(fd) \/ CloseDone(fd)

\* the value fs_stat(fd) returns
StatResult(tbl, rd, fd) ==
  IF BadFd(tbl, fd) THEN -1
  ELSE IF locate_file(rd, tbl[fd].file_name) = -1 THEN -1
  ELSE rd[locate_file(rd, tbl[fd].file_name)].fileSize

fs_stat(fd) ==
  /\ Running /\ mounted
  /\ last' = Returned("stat", <<>>, fd, 0, StatResult(fd_table, myRootDir, fd), <<>>)
  /\ UNCHANGED <<disk, diskOpen, mySuperblock, myRootDir, myFAT, fd_table, mounted>>

\* ------------------------------------------------------------------------
\* fs_lseek (fd inside the table; fs_lseek itself does not check that)
\* ------------------------------------------------------------------------
\* "offset > file_size" compares as size_t: a file_size of -1 is SIZE_MAX.
\* "offset < 0" is never true of a size_t.
LseekResult(tbl, rd, fd, offset) ==
  LET file_size == StatResult(tbl, rd, fd)
  IN IF locate_file(rd, tbl[fd].file_name) = -1 THEN -1
     ELSE IF file_size >= 0 /\ offset > file_size THEN -1
     ELSE IF ~tbl[fd].is_used THEN -1
     ELSE 0

LseekFail(fd, offset) ==
  /\ Running /\ mounted
  /\ LseekResult(fd_table, myRootDir, fd, offset) = -1
  /\ last' = Returned("lseek", <<>>, fd, offset, -1, <<>>)
  /\ UNCHANGED <<disk, diskOpen, mySuperblock, myRootDir, myFAT, fd_table, mounted>>

LseekDone(fd, offset) ==
  /\ Running /\ mounted
  /\ LseekResult(fd_table, myRootDir, fd, offset) = 0
  /\ fd_table' = [fd_table EXCEPT ![fd].offset = offset]
  /\ last' = Returned("lseek", <<>>, fd, offset, 0, <<>>)
  /\ UNCHANGED <<disk, diskOpen, mySuperblock, myRootDir, myFAT, mounted>>

fs_lseek(fd, offset) == LseekFail(fd, offset) \/ LseekDone(fd, offset)

\* ------------------------------------------------------------------------
\* fs_write, fs_read
\* ------------------------------------------------------------------------
\* fs_write is a stub
fs_write(fd, count) ==
  /\ Running /\ mounted
  /\ last' = Returned("write", <<>>, fd, count, 0, <<>>)
  /\ UNCHANGED <<disk, diskOpen, mySuperblock, myRootDir, myFAT, fd_table, mounted>>

\* the caller's buffer of count bytes before the call
FreshBuf(count) == [j \in 1 .. count |-> 0]

\* The block numbers fs_read may pass to block_read: dataBlockInd of the
\* file found by name, or, when no file has the name, whatever lies at
\* myRootDir[-1].dataBlockInd in front of the allocation.
ReadBlockNos(d, tbl, rd, fd) ==
  IF locate_file(rd, tbl[fd].file_name) # -1
    THEN {rd[locate_file(rd, tbl[fd].file_name)].dataBlockInd}
    ELSE -1 .. (d.count - 1)

\* the caller's count bytes after block_read(b, buf) copied a whole block
\* to their start
ReadBuf(d, b, count) ==
  IF BlockOk(d, b)
    THEN [j \in 1 .. count |-> IF j <= BLOCK_SIZE THEN PhysBlock(d, b)[j] ELSE 0]
    ELSE FreshBuf(count)

ReadBad(fd, count) ==
  /\ Running /\ mounted
  /\ (IF fd_table[fd].is_used = FALSE THEN TRUE ELSE count <= 0)
  /\ last' = Returned("read", <<>>, fd, count, -1, FreshBuf(count))
  /\ UNCHANGED <<disk, diskOpen, mySuperblock, myRootDir, myFAT, fd_table, mounted>>

\* cur_offset and num_blocks are computed and not used; the descriptor's
\* offset is not advanced; the result is 0
ReadDone(fd, count) ==
  /\ Running /\ mounted
  /\ fd_table[fd].is_used /\ count > 0
  /\ \E b \in ReadBlockNos(disk, fd_table, myRootDir, fd) :
       last' = Returned("read", <<>>, fd, count, 0, ReadBuf(disk, b, count))
  /\ UNCHANGED <<disk, diskOpen, mySuperblock, myRootDir, myFAT, fd_table, mounted>>

\* a block copied into a buffer shorter than a block runs over its end
ReadCrash(fd, count) ==
  /\ Running /\ mounted
  /\ fd_table[fd].is_used /\ count > 0 /\ count < BLOCK_SIZE
  /\ \E b \in ReadBlockNos(disk, fd_table, myRootDir, fd) : BlockOk(disk, b)
  /\ last' = Crashed("read", <<>>, fd, count)
  /\ UNCHANGED <<disk, diskOpen, mySuperblock, myRootDir, myFAT, fd_table, mounted>>

fs_read(fd, count) == ReadBad(fd, count) \/ ReadDone(fd, count) \/ ReadCrash(fd, count)

\* ------------------------------------------------------------------------
\* fs_lseek and fs_read with fd outside the table
\* ------------------------------------------------------------------------
\* Neither checks the range of fd: fd_table[fd] is memory next to the table,
\* whose is_used and file_name bytes are whatever lies there.  The call
\* returns -1 (the bytes are refused), returns 0 (they pass; the store to
\* offset lands outside the table, in memory this model does not hold), or
\* the process faults.
OutsideOutcomes == {"refused", "passed", "fault"}

LseekOutside(fd, offset) ==
  /\ Running /\ mounted
  /\ fd \notin Fds
  /\ \E o \in OutsideOutcomes :
       last' = CASE o = "refused" -> Returned("lseek", <<>>, fd, offset, -1, <<>>)
                 [] o = "passed" -> Returned("lseek", <<>>, fd, offset, 0, <<>>)
                 [] OTHER -> Crashed("lseek", <<>>, fd, offset)
  /\ UNCHANGED <<disk, diskOpen, mySuperblock, myRootDir, myFAT, fd_table, mounted>>

\* a passing fs_read copies some block of the disk, or none, to the buffer
ReadOutside(fd, count) ==
  /\ Running /\ mounted
  /\ fd \notin Fds
  /\ \E o \in OutsideOutcomes :
       \/ /\ o = "refused" \/ count <= 0
          /\ last' = Returned("read", <<>>, fd, count, -1, FreshBuf(count))
       \/ /\ o = "passed" /\ count > 0
          /\ \E b \in -1 .. (disk.count - 1) :
               last' = Returned("read", <<>>, fd, count, 0, ReadBuf(disk, b, count))
       \/ /\ o = "fault"
          /\ last' = Crashed("read", <<>>, fd, count)
  /\ UNCHANGED <<disk, diskOpen, mySuperblock, myRootDir, myFAT, fd_table, mounted>>

\* ------------------------------------------------------------------------
\* fs_ls, fs_info
\* ------------------------------------------------------------------------
\* what printf("%d") prints for an int16_t: the signed value
PrintInt16(v) ==
  IF Word16(v) > FAT_EOC_WORD \div 2 THEN Word16(v) - (FAT_EOC_WORD + 1) ELSE Word16(v)

\* the lines fs_ls prints for slots i, i + 1, ...: "file: %s, size: %d,
\* data_blk: %d"
RECURSIVE LsLines(_, _)
LsLines(rd, i) ==
  IF i >= FS_FILE_MAX_COUNT THEN <<>>
  ELSE (IF rd[i].filename[1] # 0
          THEN <<[file |-> CStr(rd[i].filename), size |-> rd[i].fileSize,
                  data_blk |-> PrintInt16(rd[i].dataBlockInd)]>>
          ELSE <<>>)
       \o LsLines(rd, i + 1)

\* the output is kept in the buf field of the call's record
fs_ls ==
  /\ Running /\ mounted
  /\ last' = Returned("ls", <<>>, 0, 0, 0, LsLines(myRootDir, 0))
  /\ UNCHANGED <<disk, diskOpen, mySuperblock, myRootDir, myFAT, fd_table, mounted>>

\* the numbers fs_info prints
InfoLines(sb, rd) ==
  [total_blk_count |-> sb.numBlocks,
   fat_blk_count |-> FAT_blocks(sb),
   rdir_blk |-> FAT_blocks(sb) + 1,
   data_blk |-> FAT_blocks(sb) + 2,
   data_blk_count |-> sb.numDataBlocks,
   fat_free |-> sb.numDataBlocks - FAT_blocks(sb),
   fat_total |-> sb.numDataBlocks,
   rdir_free |-> Cardinality({i \in Slots : rd[i].filename[1] = 0}),
   rdir_total |-> FS_FILE_MAX_COUNT]

fs_info ==
  /\ Running /\ mounted
  /\ last' = Returned("info", <<>>, 0, 0, 0, <<InfoLines(mySuperblock.val, myRootDir)>>)
  /\ UNCHANGED <<disk, diskOpen, mySuperblock, myRootDir, myFAT, fd_table, mounted>>

\* ------------------------------------------------------------------------
\* Specification
\* ------------------------------------------------------------------------
\* Callers make every call but fs_mount and fs_umount only while a file
\* system is mounted (the actions above are guarded by it): before the first
\* mount myRootDir is NULL, after an unmount it points to freed memory.
\* fs_mount is called only while the block layer has no disk open.
\* mounting and unmounting
Lifecycle ==
  \/ \E diskname \in DiskNames : fs_mount(diskname)
  \/ fs_umount

\* the directory and the descriptor table
DirOps ==
  \/ \E filename \in Names : fs_create(filename)
  \/ \E filename \in Names : fs_delete(filename)
  \/ \E filename \in Names : fs_open(filename)
  \/ \E fd \in FdArgs : fs_close(fd)

\* the calls that take a descriptor and move or use its cursor
IoOps ==
  \/ \E fd \in FdArgs : fs_stat(fd)
  \/ \E fd \in Fds, offset \in SeekOffsets : fs_lseek(fd, offset)
  \/ \E fd \in FdArgs, count \in WriteCounts : fs_write(fd, count)
  \/ \E fd \in Fds, count \in Counts : fs_read(fd, count)

\* every call, in any order
Next == Lifecycle \/ DirOps \/ IoOps
Spec == Init /\ [][Next]_vars

\* any sequence of mount, umount, create, delete, open and close
NextDir == Lifecycle \/ DirOps
SpecDir == Init /\ [][NextDir]_vars

\* one mounted session: every call but fs_umount
NextIO == (\E diskname \in DiskNames : fs_mount(diskname)) \/ DirOps \/ IoOps
SpecIO == Init /\ [][NextIO]_vars

\* one mounted session of creates, opens and calls that take a descriptor,
\* with every descriptor argument: the slots, one below and one above
NextFd ==
  \/ \E diskname \in DiskNames : fs_mount(diskname)
  \/ \E filename \in Names : fs_create(filename)
  \/ \E filename \in Names : fs_open(filename)
  \/ \E fd \in FdArgs : fs_close(fd)
  \/ \E fd \in FdArgs : fs_stat(fd)
  \/ \E fd \in Fds, offset \in SeekOffsets : fs_lseek(fd, offset)
  \/ \E fd \in FdArgs \ Fds, offset \in SeekOffsets : LseekOutside(fd, offset)
  \/ \E fd \in FdArgs, count \in WriteCounts : fs_write(fd, count)
  \/ \E fd \in Fds, count \in Counts : fs_read(fd, count)
  \/ \E fd \in FdArgs \ Fds, count \in Counts : ReadOutside(fd, count)
SpecFd == Init /\ [][NextFd]_vars

\* one mounted session of creates and opens, with no close and no delete
NextOpen ==
  \/ \E diskname \in DiskNames : fs_mount(diskname)
  \/ \E filename \in Names : fs_create(filename)
  \/ \E filename \in Names : fs_open_again(filename)
SpecOpen == Init /\ [][NextOpen]_vars

\* one mounted session of creates, deletes and opens, with every kind of
\* name: well-formed, empty, too long
NextNames ==
  \/ \E diskname \in DiskNames : fs_mount(diskname)
  \/ \E filename \in AllNames : fs_create(filename)
  \/ \E filename \in AllNames : fs_delete(filename)
  \/ \E filename \in AllNames : fs_open(filename)
SpecNames == Init /\ [][NextNames]_vars

\* one mounted session of creates and deletes, with every kind of name, of
\* opens of well-formed names, and of listings
NextCreate ==
  \/ \E diskname \in DiskNames : fs_mount(diskname)
  \/ \E filename \in AllNames : fs_create(filename)
  \/ \E filename \in AllNames : fs_delete(filename)
  \/ \E filename \in Names : fs_open(filename)
  \/ fs_ls
  \/ fs_info
SpecCreate == Init /\ [][NextCreate]_vars

\* mounts and unmounts of every image, and creates in between
NextMount ==
  \/ Lifecycle
  \/ \E filename \in Names : fs_create(filename)
SpecMount == InitOn(MountImages) /\ [][NextMount]_vars


\* ------------------------------------------------------------------------
\* Notions the properties are stated in
\* ------------------------------------------------------------------------
NonEmpty(rd, i) == rd[i].filename[1] # 0

\* the blocks reachable from head in fat, in order (at most n steps)
RECURSIVE Chain(_, _, _)
Chain(fat, head, n) ==
  IF n = 0 \/ head \notin DOMAIN fat \/ head = 0 THEN <<>>
  ELSE IF fat[head] = FAT_EOC_WORD THEN <<head>>
  ELSE <<head>> \o Chain(fat, fat[head], n - 1)

ChainSet(fat, head) ==
  {Chain(fat, head, NumData)[j] : j \in 1 .. Len(Chain(fat, head, NumData))}

\* the copy of FAT entry k that fs_mount read into memory
InMemoryFAT(k) ==
  myFAT.loaded[((k \div EntriesPerBlock) + 1) * BLOCK_SIZE + (k % EntriesPerBlock)]

\* the bytes of the blocks of a chain, in order
RECURSIVE ChainBytes(_, _)
ChainBytes(d, c) ==
  IF c = <<>> THEN <<>> ELSE d.data[Head(c)] \o ChainBytes(d, Tail(c))

\* the bytes [0, fileSize) of the file of directory entry e
FileBytes(d, e) ==
  SubSeq(ChainBytes(d, Chain(d.fat, e.dataBlockInd, NumData)), 1, e.fileSize)

\* name, size and first block of every slot (an empty slot has none)
DirView(rd) ==
  [i \in Slots |->
     IF NonEmpty(rd, i)
       THEN <<CStr(rd[i].filename), rd[i].fileSize, rd[i].dataBlockInd>>
       ELSE <<>>]

InUse == {f \in Fds : fd_table[f].is_used}

\* ------------------------------------------------------------------------
\* Properties
\* ------------------------------------------------------------------------

\* C1: while a file system is mounted, no two non-empty root directory
\* slots hold the same filename.
C1_UniqueNames ==
  mounted =>
    \A i, j \in Slots :
      (i # j /\ NonEmpty(myRootDir, i) /\ NonEmpty(myRootDir, j))
        => CStr(myRootDir[i].filename) # CStr(myRootDir[j].filename)

\* C2: a successful open returns the lowest descriptor that was free,
\* marks that descriptor in use with the file's slot and offset 0, adds one
\* to the file's open count, and changes no other descriptor or count.
C2_OpenStep ==
  (last'.op = "open" /\ last'.status = "returned" /\ last'.ret >= 0) =>
    LET fd == last'.ret
        r  == locate_file(myRootDir, last'.name)
    IN /\ fd \in Fds \ InUse
       /\ \A g \in Fds : g < fd => g \in InUse
       /\ fd_table'[fd].is_used
       /\ fd_table'[fd].file_index = r
       /\ fd_table'[fd].offset = 0
       /\ myRootDir'[r].num_fd_pointers = myRootDir[r].num_fd_pointers + 1
       /\ \A g \in Fds \ {fd} : fd_table'[g] = fd_table[g]
       /\ \A k \in Slots \ {r} :
            myRootDir'[k].num_fd_pointers = myRootDir[k].num_fd_pointers

C2_OpenReturnsLowestFree == [][C2_OpenStep]_vars

\* C3: closing the descriptor that the open just before it returned
\* succeeds, and leaves the descriptors in use and every file's open count
\* as they were before that open.
C3_CloseStep ==
  (/\ last.op = "open" /\ last.status = "returned" /\ last.ret >= 0
   /\ last'.op = "close" /\ last'.fd = last.ret) =>
    /\ last'.status = "returned"
    /\ last'.ret = 0
    /\ OpenState(fd_table', myRootDir') = last.pre

C3_OpenCloseRestores == [][C3_CloseStep]_vars

\* the file called name exists and an in-use descriptor refers to its slot
HasOpenDescriptor(name) ==
  LET r == locate_file(myRootDir, name)
  IN r # -1 /\ \E f \in InUse : fd_table[f].file_index = r

\* C4: deleting a file that an in-use descriptor refers to returns -1 and
\* changes neither the root directory, the FAT nor the disk.
C4_DeleteStep ==
  (last'.op = "delete" /\ last'.status = "returned"
   /\ HasOpenDescriptor(last'.name)) =>
    /\ last'.ret = -1
    /\ UNCHANGED <<myRootDir, myFAT, disk>>

C4_DeleteOpenRefused == [][C4_DeleteStep]_vars

\* C5: a successful delete of a file with no open descriptor sets every FAT
\* entry of the file's chain to 0 and empties the file's slot (first name
\* byte 0, size 0).
C5_DeleteStep ==
  (last'.op = "delete" /\ last'.status = "returned" /\ last'.ret = 0) =>
    LET r == locate_file(myRootDir, last'.name)
    IN /\ \A k \in ChainSet(disk.fat, myRootDir[r].dataBlockInd) :
            InMemoryFAT(k)' = 0
       /\ myRootDir'[r].filename[1] = 0
       /\ myRootDir'[r].fileSize = 0

C5_DeleteFreesChain == [][C5_DeleteStep]_vars

\* C6: a read of count > 0 bytes through an in-use descriptor at offset o
\* of a file of size s returns n = min(count, s - o), puts the file's bytes
\* [o, o + n) at the start of the buffer and moves the offset to o + n.
C6_ReadStep ==
  (/\ last'.op = "read" /\ last'.status = "returned"
   /\ last'.fd \in InUse /\ last'.n > 0
   /\ fd_table[last'.fd].file_index \in Slots
   /\ NonEmpty(myRootDir, fd_table[last'.fd].file_index)
   /\ fd_table[last'.fd].offset
        <= myRootDir[fd_table[last'.fd].file_index].fileSize) =>
    LET fd == last'.fd
        e  == myRootDir[fd_table[fd].file_index]
        o  == fd_table[fd].offset
        n  == Min(last'.n, e.fileSize - o)
    IN /\ last'.ret = n
       /\ Len(last'.buf) >= n
       /\ SubSeq(last'.buf, 1, n) = SubSeq(FileBytes(disk, e), o + 1, o + n)
       /\ fd_table'[fd].offset = o + n

C6_ReadReturnsBytes == [][C6_ReadStep]_vars

\* the number of free data blocks, and of blocks a file of sz bytes needs
FreeBlocks == Cardinality({k \in DataIdx \ {0} : disk.fat[k] = 0})
BlocksFor(sz) == (sz + BLOCK_SIZE - 1) \div BLOCK_SIZE

\* C7: a write of n > 0 bytes through an in-use descriptor at offset o of a
\* file of size s, when enough data blocks are free, returns n, makes the
\* file's size max(s, o + n) and moves the offset to o + n (so that the
\* bytes can be read back).
C7_WriteStep ==
  (/\ last'.op = "write" /\ last'.status = "returned"
   /\ last'.fd \in InUse /\ last'.n > 0
   /\ fd_table[last'.fd].file_index \in Slots
   /\ NonEmpty(myRootDir, fd_table[last'.fd].file_index)
   /\ BlocksFor(fd_table[last'.fd].offset + last'.n) <= FreeBlocks) =>
    LET fd == last'.fd
        r  == fd_table[fd].file_index
        o  == fd_table[fd].offset
    IN /\ last'.ret = last'.n
       /\ myRootDir'[r].fileSize = Max(myRootDir[r].fileSize, o + last'.n)
       /\ fd_table'[fd].offset = o + last'.n

C7_WriteThenRead == [][C7_WriteStep]_vars

\* C8: a mount of the same disk that follows a successful unmount of a
\* mounted file system finds every slot's name, size and first block, and
\* the FAT, as they were at the unmount.
C8_RemountStep ==
  (/\ last.op = "umount" /\ last.status = "returned" /\ last.ret = 0 /\ last.m
   /\ last'.op = "mount" /\ last'.status = "returned" /\ last'.ret = 0) =>
    /\ DirView(myRootDir') = DirView(myRootDir)
    /\ myFAT'.loaded = myFAT.loaded

C8_UmountPersists == [][C8_RemountStep]_vars

\* C9: an unmount made while no file system is mounted, or while a
\* descriptor is in use, returns -1 and changes nothing.
C9_UmountStep ==
  (last'.op = "umount" /\ (~mounted \/ InUse # {})) =>
    /\ last'.status = "returned"
    /\ last'.ret = -1
    /\ UNCHANGED <<disk, diskOpen, mySuperblock, myRootDir, myFAT, fd_table, mounted>>

C9_UmountGuarded == [][C9_UmountStep]_vars

\* C10: while a file system is mounted, the offset of every in-use
\* descriptor is at most the size of the file in the slot it refers to.
C10_OffsetWithinSize ==
  mounted =>
    \A f \in InUse :
      /\ fd_table[f].file_index \in Slots
      /\ fd_table[f].offset <= myRootDir[fd_table[f].file_index].fileSize

\* C11: close, stat, lseek, read and write, called with a descriptor outside
\* the table or one that is not in use, return -1 and change neither the
\* descriptor table, the root directory, the FAT, the disk nor the caller's
\* buffer.
C11_BadFdStep ==
  (/\ last'.op \in {"close", "stat", "lseek", "read", "write"}
   /\ BadFd(fd_table, last'.fd)) =>
    /\ last'.status = "returned"
    /\ last'.ret = -1
    /\ UNCHANGED <<fd_table, myRootDir, myFAT, disk>>
    /\ last'.op = "read" => last'.buf = FreshBuf(last'.n)

C11_BadFdRefused == [][C11_BadFdStep]_vars

\* the sum of the open counts of slots i, i + 1, ...
RECURSIVE SumCounts(_, _)
SumCounts(rd, i) ==
  IF i >= FS_FILE_MAX_COUNT THEN 0
  ELSE rd[i].num_fd_pointers + SumCounts(rd, i + 1)

\* C12: an open of an existing file returns -1, with the descriptor table
\* and the open counts unchanged, exactly when FS_OPEN_MAX_COUNT opens have
\* succeeded without a close; so the open after FS_OPEN_MAX_COUNT opens of
\* one file returns -1.  (Under SpecOpen no call closes, deletes or unmounts,
\* and every successful open adds one to one counter: the sum of the
\* counters is the number of opens that have succeeded.)
C12_OpenStep ==
  (/\ last'.op = "open" /\ last'.status = "returned"
   /\ locate_file(myRootDir, last'.name) # -1) =>
    /\ (last'.ret = -1) <=> (SumCounts(myRootDir, 0) >= FS_OPEN_MAX_COUNT)
    /\ (last'.ret = -1) => OpenState(fd_table', myRootDir') = OpenState(fd_table, myRootDir)

C12_OpenLimit == [][C12_OpenStep]_vars

\* a non-empty slot holds exactly this name
Exists(name) ==
  \E i \in Slots : NonEmpty(myRootDir, i) /\ CStr(myRootDir[i].filename) = name

\* C13: open and delete of a name (of any length, the empty string
\* included) that no non-empty slot holds return -1 and change nothing; an
\* empty slot is never matched.
C13_LookupStep ==
  (last'.op \in {"open", "delete"} /\ ~Exists(last'.name)) =>
    /\ last'.status = "returned"
    /\ last'.ret = -1
    /\ UNCHANGED <<myRootDir, myFAT, fd_table, disk>>

C13_AbsentNameRefused == [][C13_LookupStep]_vars

\* a name fs_create is meant to accept: not empty, and room for its NUL
ValidName(name) == Len(name) > 0 /\ Len(name) < FS_FILENAME_LEN

FreeSlots == {i \in Slots : ~NonEmpty(myRootDir, i)}

\* C14: a create of a valid name that no slot holds, with an empty slot,
\* returns 0 and writes the name, size 0 and first block 0xFFFF into the
\* lowest empty slot, leaving every other slot, the FAT and the disk
\* unchanged; a create with no empty slot returns -1 and changes nothing.
C14_CreateStep ==
  (last'.op = "create" /\ last'.status = "returned") =>
    /\ (ValidName(last'.name) /\ ~Exists(last'.name) /\ FreeSlots # {}) =>
         LET i == CHOOSE k \in FreeSlots : \A j \in FreeSlots : k <= j
         IN /\ last'.ret = 0
            /\ CStr(myRootDir'[i].filename) = last'.name
            /\ myRootDir'[i].fileSize = 0
            /\ Word16(myRootDir'[i].dataBlockInd) = FAT_EOC_WORD
            /\ \A k \in Slots \ {i} : myRootDir'[k] = myRootDir[k]
            /\ UNCHANGED <<myFAT, disk>>
    /\ (FreeSlots = {}) =>
         /\ last'.ret = -1
         /\ UNCHANGED <<myRootDir, myFAT, disk, fd_table>>

C14_CreateFillsLowest == [][C14_CreateStep]_vars

\* a create of a valid name has just returned 0 and exactly one slot holds
\* the name, with size 0 and first block -1, while a lower slot holds
\* another file
C14_Created ==
  /\ last.op = "create" /\ last.status = "returned" /\ last.ret = 0
  /\ ValidName(last.name)
  /\ Cardinality({i \in Slots : NonEmpty(myRootDir, i)
                                 /\ CStr(myRootDir[i].filename) = last.name}) = 1
  /\ \E i \in Slots \ {0} :
       /\ CStr(myRootDir[i].filename) = last.name
       /\ myRootDir[i].fileSize = 0
       /\ myRootDir[i].dataBlockInd = FAT_EOC
       /\ \A k \in 0 .. (i - 1) : NonEmpty(myRootDir, k)

\* C15: a create of the empty name, or of a name with no room for its NUL
\* in the filename array, returns -1 and leaves the root directory
\* unchanged, so that the name of every non-empty slot has its NUL inside
\* the array.
C15_CreateStep ==
  (last'.op = "create" /\ ~ValidName(last'.name)) =>
    /\ last'.status = "returned"
    /\ last'.ret = -1
    /\ UNCHANGED myRootDir
    /\ \A i \in Slots :
         NonEmpty(myRootDir', i) =>
           \E j \in 1 .. FS_FILENAME_LEN : myRootDir'[i].filename[j] = 0

C15_InvalidNameRefused == [][C15_CreateStep]_vars

\* the superblock of the image is well-formed: signature, block count and
\* the layout derived from the number of data blocks
GoodSuperblock(d) ==
  /\ d.super.signature = Signature
  /\ d.super.numBlocks = d.count
  /\ d.super.numFAT = CeilFatBlocks(d.super.numDataBlocks)
  /\ d.super.rootDirInd = 1 + d.super.numFAT
  /\ d.super.dataInd = d.super.rootDirInd + 1
  /\ d.super.numBlocks = d.super.dataInd + d.super.numDataBlocks

\* C16: mount returns 0 only for a well-formed superblock and -1 otherwise,
\* and the number of FAT blocks it loads is
\* ceil(data_block_count * 2 / BLOCK_SIZE).
C16_MountStep ==
  (last'.op = "mount" /\ last'.status = "returned") =>
    /\ last'.ret \in {0, -1}
    /\ ~GoodSuperblock(disk) => last'.ret = -1
    /\ last'.ret = 0 =>
         Cardinality(DOMAIN myFAT'.loaded)
           = CeilFatBlocks(disk.super.numDataBlocks) * EntriesPerBlock

C16_MountValidates == [][C16_MountStep]_vars

\* the lines of a listing of slots i, i + 1, ...: name, size and first block
\* (an unsigned 16-bit number) of every non-empty slot
RECURSIVE Listing(_, _)
Listing(rd, i) ==
  IF i >= FS_FILE_MAX_COUNT THEN <<>>
  ELSE (IF NonEmpty(rd, i)
          THEN <<[file |-> CStr(rd[i].filename), size |-> rd[i].fileSize,
                  data_blk |-> Word16(rd[i].dataBlockInd)]>>
          ELSE <<>>)
       \o Listing(rd, i + 1)

\* C17: ls prints, for every non-empty slot and no other, its name, its
\* size and its first block as an unsigned 16-bit number; a file just
\* created is listed with size 0 and data_blk 65535.
C17_LsOutput ==
  (last.op = "ls" /\ last.status = "returned") =>
    last.buf = Listing(myRootDir, 0)

\* C18: info prints fat_free_ratio = free / D with free the number of zero
\* entries of the mounted FAT and D the number of data blocks, and
\* rdir_free_ratio = free / FS_FILE_MAX_COUNT with free the number of empty
\* slots.
C18_InfoOutput ==
  (last.op = "info" /\ last.status = "returned") =>
    /\ last.buf[1].fat_free
         = Cardinality({k \in 0 .. (mySuperblock.val.numDataBlocks - 1) :
                          InMemoryFAT(k) = 0})
    /\ last.buf[1].fat_total = mySuperblock.val.numDataBlocks
    /\ last.buf[1].rdir_free = Cardinality(FreeSlots)
    /\ last.buf[1].rdir_total = FS_FILE_MAX_COUNT

\* C19: while a file system is mounted, the open count of every slot is the
\* number of in-use descriptors that refer to the slot.
C19_CountsMatchDescriptors ==
  mounted =>
    \A r \in Slots :
      myRootDir[r].num_fd_pointers
        = Cardinality({f \in InUse : fd_table[f].file_index = r})

\* C20: a delete changes no byte of a data block and no FAT entry on the
\* disk, and leaves name, size and first block of every slot but the
\* deleted one as they were.
C20_DeleteStep ==
  (last'.op = "delete" /\ last'.status = "returned") =>
    /\ disk'.data = disk.data
    /\ disk'.fat = disk.fat
    /\ \A k \in Slots \ {locate_file(myRootDir, last'.name)} :
         DirView(myRootDir')[k] = DirView(myRootDir)[k]

C20_DeleteKeepsData == [][C20_DeleteStep]_vars

====
